---- MODULE Spec2Model ----
(***************************************************************************)
(* agentropic-runtime: the scheduler's TaskQueue and the supervisor's      *)
(* HealthCheck and RestartPolicy as state machines, with the components    *)
(* the crate declares (scheduler::engine, supervisor::circuit_breaker,     *)
(* supervisor::backoff, supervisor::engine) modelled after their           *)
(* specification.                                                          *)
(***************************************************************************)
EXTENDS Integers, Sequences, FiniteSets, TLC

\* ------------------------------------------------------------------ bounds

\* Pushes made on the one TaskQueue of a run.
MaxPush == 3
\* Task priorities range over 0..MaxPriority.
MaxPriority == 2
\* record_healthy / record_unhealthy calls made on the one HealthCheck of a run.
MaxCalls == 4
\* Instant::now() ranges over 0..MaxTime.
MaxTime == 1
\* Failure, success and cool-down events on the one CircuitBreaker of a run.
MaxCbEvents == 5
\* Configured breaker thresholds range over 1..MaxThreshold.
MaxThreshold == 3
\* Configured breaker cool-downs range over 1..MaxCoolDown.
MaxCoolDown == 2
\* with_backoff_seconds is given 0..MaxSeconds.
MaxSeconds == 2
\* with_max_retries is given 0..MaxRetries.
MaxRetries == 3
\* Configured backoff multipliers range over 1..MaxFactor.
MaxFactor == 2
\* Configured backoff caps (max_delay) range over 1..MaxDelay.
MaxDelay == 4
\* A jittered delay is 0..MaxJitter longer.
MaxJitter == 1
\* next_delay() calls on one ExponentialBackoff between two resets.
MaxAttempt == 3
\* Failure notifications and health observations the Supervisor receives in a run.
MaxSupEvents == 4
\* Priority schedulers are built with 1..MaxLevels levels, or by default().
MaxLevels == 2
\* Tasks pending in the Scheduler at one time.
MaxPending == 2
\* push, pop and clear calls made on the one TaskQueue of a run.
MaxOps == 5
\* with_parameter calls made while building the one SchedulingPolicy of a run.
MaxParameters == 3
\* Parameter values range over -1..MaxValue.
MaxValue == 1
\* record_* calls begun by the concurrent reporters of a run.
MaxReports == 3
\* A long run of failures is picked up 0..MaxShort failures short of u32::MAX.
MaxShort == 2

\* ------------------------------------------------------------------ values

\* Option<T>: None is the empty sequence, Some(x) the one-element sequence.
None == <<>>
Some(x) == <<x>>

\* AgentId is opaque and equality-comparable.
Agents == {"agentA", "agentB"}

Priorities == 0..MaxPriority

\* A u32 is held as two 16-bit limbs, value = hi * 2^16 + lo: TLC's integers
\* stop short of 2^32.
U16Modulus == 65536

\* The u32 of a number below 2^31.
U32_of(n) == [hi |-> n \div U16Modulus, lo |-> n % U16Modulus]

U32_zero == U32_of(0)

\* x + 1 on a u32, wrapping at 2^32 (a release build's +=).
U32_wrapping_inc(x) ==
    IF x.lo + 1 < U16Modulus
    THEN [hi |-> x.hi, lo |-> x.lo + 1]
    ELSE [hi |-> (x.hi + 1) % U16Modulus, lo |-> 0]

U32_max == [hi |-> U16Modulus - 1, lo |-> U16Modulus - 1]

\* x < y on two u32.
U32_less(x, y) == x.hi < y.hi \/ (x.hi = y.hi /\ x.lo < y.lo)

\* ------------------------------------------------------------------ Task

Task_new(agent_id, priority) == [agent_id |-> agent_id, priority |-> priority]

Task_agent_id(task) == task.agent_id

\* A task whose priority reads as the lowest, whatever it was created with.
Task_priority_lowest(task) == 1

Task_priority(task) == task.priority

Tasks == {Task_new(a, p) : a \in Agents, p \in Priorities}

\* ------------------------------------------------------------------ TaskQueue
\* A TaskQueue is its VecDeque<Task>, front first.

TaskQueue_new == <<>>

TaskQueue_default == TaskQueue_new

\* push that drops the task when two are already waiting.
TaskQueue_push_bounded(q, task) == IF Len(q) >= 2 THEN q ELSE Append(q, task)

TaskQueue_push(q, task) == Append(q, task)

\* pop_front at the wrong end.
TaskQueue_pop_lifo(q) ==
    IF q = <<>>
    THEN [queue |-> q, result |-> None]
    ELSE [queue |-> SubSeq(q, 1, Len(q) - 1), result |-> Some(q[Len(q)])]

\* pop that returns the front task and leaves it in the queue.
TaskQueue_pop_peek(q) ==
    IF q = <<>>
    THEN [queue |-> q, result |-> None]
    ELSE [queue |-> q, result |-> Some(Head(q))]

\* The queue after the call, and the Option<Task> returned.
TaskQueue_pop(q) ==
    IF q = <<>>
    THEN [queue |-> q, result |-> None]
    ELSE [queue |-> Tail(q), result |-> Some(Head(q))]

TaskQueue_is_empty(q) == q = <<>>

TaskQueue_len(q) == Len(q)

\* clear that drops the front task only.
TaskQueue_clear_front(q) == IF q = <<>> THEN q ELSE Tail(q)

TaskQueue_clear(q) == <<>>

\* ------------------------------------------------------------------ HealthCheck

HealthStatus == {"Healthy", "Unhealthy", "Unknown"}

\* A HealthCheck that starts out Healthy.
HealthCheck_new_healthy ==
    [status |-> "Healthy", last_check |-> None, failures |-> U32_zero]

HealthCheck_new ==
    [status |-> "Unknown", last_check |-> None, failures |-> U32_zero]

HealthCheck_default == HealthCheck_new

\* record_healthy that forgets the counter.
HealthCheck_record_healthy_keep(h, now) ==
    [status |-> "Healthy", last_check |-> Some(now), failures |-> h.failures]

HealthCheck_record_healthy(h, now) ==
    [status |-> "Healthy", last_check |-> Some(now), failures |-> U32_zero]

\* record_unhealthy that sets the counter instead of incrementing it.
HealthCheck_record_unhealthy_set(h, now) ==
    [status |-> "Unhealthy", last_check |-> Some(now), failures |-> U32_of(1)]

\* record_unhealthy that counts the failure and leaves the status alone.
HealthCheck_record_unhealthy_soft(h, now) ==
    [status |-> h.status, last_check |-> Some(now),
     failures |-> U32_wrapping_inc(h.failures)]

\* failures += 1 on a u32, in a build without overflow checks (the release
\* profile): the sum wraps.
HealthCheck_record_unhealthy(h, now) ==
    [status |-> "Unhealthy", last_check |-> Some(now),
     failures |-> U32_wrapping_inc(h.failures)]

\* record_unhealthy in either build: the check the call leaves behind and
\* whether it panicked.  With overflow checks (the debug profile) the += at
\* u32::MAX panics, after status and last_check were assigned.
HealthCheck_record_unhealthy_in(overflow_checks, h, now) ==
    IF overflow_checks /\ h.failures = U32_max
    THEN [check |-> [status |-> "Unhealthy", last_check |-> Some(now),
                     failures |-> h.failures],
          panicked |-> TRUE]
    ELSE [check |-> HealthCheck_record_unhealthy(h, now), panicked |-> FALSE]

\* A receiver that does not exclude other callers (&self over shared state).
HealthCheck_borrow_shared(borrowed, a) == TRUE

\* record_healthy and record_unhealthy take &mut self: a call on the check of
\* agent a begins only while no other call holds a borrow of that check.
HealthCheck_borrow_mut(borrowed, a) == a \notin borrowed

\* The three assignments of record_healthy / record_unhealthy, in the order
\* of the source.
RecordSteps == <<"status", "last_check", "failures">>

\* One assignment of a record_* call: kind is the method, step the
\* assignment, now what Instant::now() returns when it runs.
HealthCheck_record_step(h, kind, step, now) ==
    CASE step = "status" ->
            [h EXCEPT !.status = IF kind = "healthy" THEN "Healthy" ELSE "Unhealthy"]
      [] step = "last_check" ->
            [h EXCEPT !.last_check = Some(now)]
      [] step = "failures" ->
            [h EXCEPT !.failures = IF kind = "healthy" THEN U32_zero
                                   ELSE U32_wrapping_inc(h.failures)]

HealthCheck_status(h) == h.status

HealthCheck_failures(h) == h.failures

HealthCheck_is_healthy(h) == h.status = "Healthy"

\* ------------------------------------------------------------------ CircuitBreaker
\* supervisor::circuit_breaker: state, failure count, time of the last
\* transition, and the configured threshold and cool-down.

CircuitState == {"Closed", "Open", "HalfOpen"}

CircuitBreaker_new(threshold, cool_down) ==
    [state |-> "Closed", failures |-> 0, last_transition |-> None,
     threshold |-> threshold, cool_down |-> cool_down]

\* record_failure that opens one failure late.
CircuitBreaker_record_failure_late(cb, now) ==
    CASE cb.state = "Closed" ->
            IF cb.failures + 1 > cb.threshold
            THEN [cb EXCEPT !.state = "Open", !.failures = cb.failures + 1,
                            !.last_transition = Some(now)]
            ELSE [cb EXCEPT !.failures = cb.failures + 1]
      [] cb.state = "HalfOpen" ->
            [cb EXCEPT !.state = "Open", !.last_transition = Some(now)]
      [] OTHER -> cb

\* Closed: count the failure and open at the threshold.  HalfOpen: the trial
\* failed, open again and restart the cool-down.  Open: dispatch is forbidden
\* and the report changes nothing.
CircuitBreaker_record_failure(cb, now) ==
    CASE cb.state = "Closed" ->
            IF cb.failures + 1 >= cb.threshold
            THEN [cb EXCEPT !.state = "Open", !.failures = cb.failures + 1,
                            !.last_transition = Some(now)]
            ELSE [cb EXCEPT !.failures = cb.failures + 1]
      [] cb.state = "HalfOpen" ->
            [cb EXCEPT !.state = "Open", !.last_transition = Some(now)]
      [] OTHER -> cb

\* record_success that closes an Open circuit as well.
CircuitBreaker_record_success_any(cb, now) ==
    CASE cb.state \in {"HalfOpen", "Open"} ->
            [cb EXCEPT !.state = "Closed", !.failures = 0,
                       !.last_transition = Some(now)]
      [] OTHER -> [cb EXCEPT !.failures = 0]

\* HalfOpen: the trial succeeded, close and forget the failures.  Closed: the
\* run of consecutive failures ends.  Open: the report changes nothing.
CircuitBreaker_record_success(cb, now) ==
    CASE cb.state = "HalfOpen" ->
            [cb EXCEPT !.state = "Closed", !.failures = 0,
                       !.last_transition = Some(now)]
      [] cb.state = "Closed" -> [cb EXCEPT !.failures = 0]
      [] OTHER -> cb

\* Whether an Open circuit's cool-down has elapsed at time now.
CircuitBreaker_cooled_down(cb, now) ==
    /\ cb.state = "Open"
    /\ cb.last_transition # None
    /\ now - cb.last_transition[1] >= cb.cool_down

\* Open, cool-down elapsed: allow one trial dispatch.
CircuitBreaker_half_open(cb, now) ==
    IF CircuitBreaker_cooled_down(cb, now)
    THEN [cb EXCEPT !.state = "HalfOpen", !.last_transition = Some(now)]
    ELSE cb

CircuitBreaker_state(cb) == cb.state

CircuitBreaker_failures(cb) == cb.failures

\* ------------------------------------------------------------------ RestartPolicy

RestartStrategy == {"Never", "Always", "OnFailure", "ExponentialBackoff"}

\* new() that drops its argument and keeps the default strategy.
RestartPolicy_new_on_failure(strategy) ==
    [strategy |-> "OnFailure", max_retries |-> None, backoff_seconds |-> 1]

RestartPolicy_new(strategy) ==
    [strategy |-> strategy, max_retries |-> None, backoff_seconds |-> 1]

RestartPolicy_default == RestartPolicy_new("OnFailure")

\* with_max_retries that allows one retry more.
RestartPolicy_with_max_retries_more(policy, retries) ==
    [policy EXCEPT !.max_retries = Some(retries + 1)]

RestartPolicy_with_max_retries(policy, retries) ==
    [policy EXCEPT !.max_retries = Some(retries)]

\* with_backoff_seconds that returns the policy as it was.
RestartPolicy_with_backoff_seconds_kept(policy, seconds) == policy

RestartPolicy_with_backoff_seconds(policy, seconds) ==
    [policy EXCEPT !.backoff_seconds = seconds]

RestartPolicy_strategy(policy) == policy.strategy

RestartPolicy_max_retries(policy) == policy.max_retries

RestartPolicy_backoff_seconds(policy) == policy.backoff_seconds

\* The policy a caller builds from a configuration: the strategy, and the
\* builder calls it makes (None: the call is not made).
RestartPolicy_build(config) ==
    LET p0 == RestartPolicy_new(config.strategy)
        p1 == IF config.retries = None THEN p0
              ELSE RestartPolicy_with_max_retries(p0, config.retries[1])
    IN  IF config.seconds = None THEN p1
        ELSE RestartPolicy_with_backoff_seconds(p1, config.seconds[1])

\* ------------------------------------------------------------------ ExponentialBackoff
\* supervisor::backoff: delay = min(base * factor^attempt, max_delay),
\* optionally jittered; next_delay() advances the attempt, reset() zeroes it.

RECURSIVE Pow(_, _)
Pow(x, n) == IF n = 0 THEN 1 ELSE x * Pow(x, n - 1)

Min(x, y) == IF x <= y THEN x ELSE y

ExponentialBackoff_new(base, factor, max_delay, jitter) ==
    [base |-> base, factor |-> factor, max_delay |-> max_delay,
     jitter |-> jitter, attempt |-> 0]

\* The delay of the current attempt, before jitter.
ExponentialBackoff_delay(b) ==
    Min(b.base * Pow(b.factor, b.attempt), b.max_delay)

\* The backoff after the call, and the delay returned; offset is the random
\* offset drawn when jitter is on.
ExponentialBackoff_next_delay(b, offset) ==
    [backoff |-> [b EXCEPT !.attempt = b.attempt + 1],
     delay |-> ExponentialBackoff_delay(b) + (IF b.jitter THEN offset ELSE 0)]

ExponentialBackoff_reset(b) == [b EXCEPT !.attempt = 0]

\* ------------------------------------------------------------------ Supervisor
\* supervisor::engine: per agent one HealthCheck, one CircuitBreaker, one
\* ExponentialBackoff and a retry counter, under one shared RestartPolicy.

Supervisor_new_agent(p, threshold, cool_down, factor, max_delay, jitter) ==
    [health |-> HealthCheck_new,
     breaker |-> CircuitBreaker_new(threshold, cool_down),
     backoff |-> ExponentialBackoff_new(RestartPolicy_backoff_seconds(p),
                                        factor, max_delay, jitter),
     retries |-> 0]

\* A failure notification for one agent: record it, consult the strategy,
\* then the retry budget.  Gives the agent's record after it and the
\* decision handed to the lifecycle manager.
Supervisor_on_failure(rec, p, now, offset) ==
    LET health == HealthCheck_record_unhealthy(rec.health, now)
        breaker == CircuitBreaker_record_failure(rec.breaker, now)
        strategy == RestartPolicy_strategy(p)
        wanted == CASE strategy = "Never" -> FALSE
                    [] strategy = "Always" -> TRUE
                    [] OTHER -> HealthCheck_status(health) = "Unhealthy"
        exhausted == /\ RestartPolicy_max_retries(p) # None
                     /\ rec.retries >= RestartPolicy_max_retries(p)[1]
        next == ExponentialBackoff_next_delay(rec.backoff, offset)
        seen == [rec EXCEPT !.health = health, !.breaker = breaker]
    IN  CASE exhausted ->
                [agent |-> seen, decision |-> "PermanentFailure", delay |-> 0]
          [] ~exhausted /\ ~wanted ->
                [agent |-> seen, decision |-> "NoRestart", delay |-> 0]
          [] ~exhausted /\ wanted /\ strategy = "ExponentialBackoff" ->
                [agent |-> [seen EXCEPT !.retries = rec.retries + 1,
                                        !.backoff = next.backoff],
                 decision |-> "Restart", delay |-> next.delay]
          [] OTHER ->
                [agent |-> [seen EXCEPT !.retries = rec.retries + 1],
                 decision |-> "Restart", delay |-> 0]

\* A successful health observation for one agent: the retry counter and the
\* backoff start over.
Supervisor_on_success(rec, now) ==
    [health |-> HealthCheck_record_healthy(rec.health, now),
     breaker |-> CircuitBreaker_record_success(rec.breaker, now),
     backoff |-> ExponentialBackoff_reset(rec.backoff),
     retries |-> 0]

\* ------------------------------------------------------------------ PriorityScheduler

PriorityScheduler_new(levels) == [levels |-> levels]

PriorityScheduler_levels(ps) == ps.levels

PriorityScheduler_default == PriorityScheduler_new(5)

\* ------------------------------------------------------------------ SchedulingPolicy
\* A parameter is the pair <<name, value>>; the f64 values are the whole
\* numbers -1.0 .. MaxValue.

PolicyType == {"FairShare", "Priority", "RoundRobin", "FCFS"}

ParameterNames == {"weight", "aging"}

ParameterValues == (-1)..MaxValue

SchedulingPolicy_new(policy_type) ==
    [policy_type |-> policy_type, parameters |-> <<>>]

\* with_parameter that puts the pair in front of the list.
SchedulingPolicy_with_parameter_front(p, name, value) ==
    [p EXCEPT !.parameters = <<<<name, value>>>> \o p.parameters]

\* with_parameter that overwrites the value of a name already in the list.
SchedulingPolicy_with_parameter_replace(p, name, value) ==
    IF \E i \in 1..Len(p.parameters) : p.parameters[i][1] = name
    THEN [p EXCEPT !.parameters =
              [i \in 1..Len(p.parameters) |->
                  IF p.parameters[i][1] = name THEN <<name, value>>
                  ELSE p.parameters[i]]]
    ELSE [p EXCEPT !.parameters = Append(p.parameters, <<name, value>>)]

\* self.parameters.push((name, value)); there is no check of name or value.
SchedulingPolicy_with_parameter(p, name, value) ==
    [p EXCEPT !.parameters = Append(p.parameters, <<name, value>>)]

SchedulingPolicy_policy_type(p) == p.policy_type

SchedulingPolicy_parameters(p) == p.parameters

\* How a strategy reads one parameter of its policy: the last pair of that
\* name is authoritative; None when the name was never given.
SchedulingPolicy_parameter(p, name) ==
    LET params == SchedulingPolicy_parameters(p)
        places == {i \in 1..Len(params) : params[i][1] = name}
    IN  IF places = {} THEN None
        ELSE Some(params[CHOOSE i \in places : \A j \in places : j <= i][2])

\* ------------------------------------------------------------------ Scheduler
\* scheduler::engine under the Priority strategy: one TaskQueue per priority
\* level, bucket l holding the tasks of priority l.

Scheduler_new(ps) ==
    [priority |-> ps,
     buckets |-> [l \in 1..PriorityScheduler_levels(ps) |-> TaskQueue_new]]

\* The tasks of a queue, in order, whose agent's breaker is not Open.
Scheduler_eligible(q, circuits) ==
    SelectSeq(q, LAMBDA task :
        CircuitBreaker_state(circuits[Task_agent_id(task)]) # "Open")

\* A queue without its i-th task.
Scheduler_remove(q, i) == SubSeq(q, 1, i - 1) \o SubSeq(q, i + 1, Len(q))

\* submit(task): the task joins the back of its priority's bucket.
Scheduler_submit(s, task) ==
    [s EXCEPT !.buckets[Task_priority(task)] =
                  TaskQueue_push(s.buckets[Task_priority(task)], task)]

\* next(): the first task with an eligible agent in the highest bucket that
\* holds one, removed from its bucket; None when there is none.
Scheduler_next(s, circuits) ==
    LET ready == {l \in DOMAIN s.buckets :
                     Scheduler_eligible(s.buckets[l], circuits) # <<>>}
    IN  IF ready = {}
        THEN [scheduler |-> s, result |-> None]
        ELSE LET l == CHOOSE m \in ready : \A k \in ready : k <= m
                 q == s.buckets[l]
                 task == Head(Scheduler_eligible(q, circuits))
                 i == CHOOSE j \in 1..Len(q) :
                          /\ q[j] = task
                          /\ \A k \in 1..(j - 1) : q[k] # task
             IN  [scheduler |-> [s EXCEPT !.buckets[l] =
                                     IF i = 1 THEN TaskQueue_pop(q).queue
                                     ELSE Scheduler_remove(q, i)],
                  result |-> Some(task)]

\* ------------------------------------------------------------------ state

VARIABLES
    clock,      \* what Instant::now() returns
    tasks,      \* the TaskQueue
    popResult,  \* what the last pop() returned
    pushed,     \* history: every task pushed, in push order
    popped,     \* history: every task a pop() returned, in pop order
    cleared,    \* history: whether clear() was ever called
    qLog,       \* history: every call made on the TaskQueue, in order, with
                \* what it returned and what len() and is_empty() said after it
    hc,         \* the HealthCheck
    hcCtor,     \* history: the constructor that made hc
    hcLog,      \* history: the record_* calls made on hc in the run, in order
    overflowChecks, \* whether the build checks arithmetic overflow
    panicked,   \* whether a call on hc panicked
    hcRun,      \* history: the number of record_unhealthy calls made on hc
                \* since the last record_healthy (or creation); not a u32,
                \* its hi limb goes on past 2^16 - 1
    hcPrev,     \* history: what failures() returned before the last record_* call
    cb,         \* the CircuitBreaker
    cbLog,      \* history: the events reported to cb, in order
    cbTrace,    \* history: the states cb has been in, at creation and after each event
    config,     \* the configuration the RestartPolicy was built from
    policy,     \* the RestartPolicy
    bo,         \* the ExponentialBackoff
    delays,     \* history: the delays bo returned since its last reset (or creation)
    boResets,   \* history: the number of reset() calls on bo, up to 1
    sup,        \* the Supervisor's record of every agent
    supLog,     \* history: the events the Supervisor handled and its decisions
    sched,      \* the Scheduler (Priority strategy)
    circuits,   \* the CircuitBreaker of every agent, as the Scheduler consults it
    pending,    \* history: the tasks submitted and not yet returned, in submission order
    lastNext,   \* history: the next() call just made, if the last step was
                \* one: what was pending, whose breaker was Open, and what
                \* it returned
    sp,         \* the SchedulingPolicy being built
    spType,     \* history: the PolicyType given to SchedulingPolicy::new
    spCalls,    \* history: the with_parameter calls made on sp, in order
    prio,       \* the PriorityScheduler the configuration built, None before
    checks,     \* the HealthCheck of every agent, under concurrent reporters
    inCall,     \* per reporter, the record_* call it is inside: the agent, the
                \* method and the next assignment to run; None between calls
    reported    \* history: per agent, the calls that returned, in that order

queueVars == <<tasks, popResult, pushed, popped, cleared, qLog>>
healthVars == <<hc, hcCtor, hcLog, overflowChecks, panicked, hcRun, hcPrev>>
breakerVars == <<cb, cbLog, cbTrace>>
policyVars == <<config, policy>>
backoffVars == <<bo, delays, boResets>>
supVars == <<sup, supLog>>
schedVars == <<sched, circuits, pending, lastNext>>
configVars == <<sp, spType, spCalls, prio>>
reportVars == <<checks, inCall, reported>>
extraVars == <<configVars, reportVars>>
others == <<policyVars, backoffVars, supVars, schedVars, extraVars>>
vars == <<clock, queueVars, healthVars, breakerVars, others>>

\* ------------------------------------------------------------------ initial states

QueueInit ==
    /\ tasks = TaskQueue_new
    /\ popResult = None
    /\ pushed = <<>>
    /\ popped = <<>>
    /\ cleared = FALSE
    /\ qLog = <<>>

HealthInit ==
    /\ hcCtor \in {"new", "default"}
    /\ hc = IF hcCtor = "new" THEN HealthCheck_new ELSE HealthCheck_default
    /\ hcLog = <<>>
    /\ overflowChecks \in BOOLEAN
    /\ panicked = FALSE
    /\ hcRun = U32_zero
    /\ hcPrev = U32_zero

\* The HealthCheck of a run that is about another component.
HealthIdle ==
    /\ hcCtor = "new"
    /\ hc = HealthCheck_new
    /\ hcLog = <<>>
    /\ overflowChecks = FALSE
    /\ panicked = FALSE
    /\ hcRun = U32_zero
    /\ hcPrev = U32_zero

\* A HealthCheck picked up late in a long run of failures: made by new() at
\* time 0 and given n record_unhealthy calls since, n at most MaxShort short
\* of u32::MAX.  No call before the n-th overflows, in either build.
HealthLongInit ==
    /\ hcCtor = "new"
    /\ \E k \in 0..MaxShort :
           hc = [status |-> "Unhealthy", last_check |-> Some(0),
                 failures |-> [hi |-> U32_max.hi, lo |-> U32_max.lo - k]]
    /\ hcLog = <<>>
    /\ overflowChecks \in BOOLEAN
    /\ panicked = FALSE
    /\ hcRun = HealthCheck_failures(hc)
    /\ hcPrev = U32_zero

BreakerInit ==
    /\ \E threshold \in 1..MaxThreshold, cool_down \in 1..MaxCoolDown :
           cb = CircuitBreaker_new(threshold, cool_down)
    /\ cbLog = <<>>
    /\ cbTrace = <<CircuitBreaker_state(cb)>>

\* The CircuitBreaker of a run that is about another component.
BreakerIdle ==
    /\ cb = CircuitBreaker_new(1, 1)
    /\ cbLog = <<>>
    /\ cbTrace = <<CircuitBreaker_state(cb)>>

\* A policy built from a configuration drawn from strategies, retries, seconds.
PolicyInit(strategies, retries, seconds) ==
    /\ config \in [strategy : strategies, retries : retries, seconds : seconds]
    /\ policy = RestartPolicy_build(config)

\* The default policy.
PolicyIdle ==
    /\ config = [strategy |-> "OnFailure", retries |-> None, seconds |-> None]
    /\ policy = RestartPolicy_default

\* A backoff whose base is the policy's backoff_seconds.
BackoffInit ==
    /\ \E factor \in 1..MaxFactor, max_delay \in 1..MaxDelay, jitter \in BOOLEAN :
           bo = ExponentialBackoff_new(RestartPolicy_backoff_seconds(policy),
                                       factor, max_delay, jitter)
    /\ delays = <<>>
    /\ boResets = 0

BackoffIdle ==
    /\ bo = ExponentialBackoff_new(RestartPolicy_backoff_seconds(policy), 2, MaxDelay, FALSE)
    /\ delays = <<>>
    /\ boResets = 0

\* Every agent supervised from scratch: threshold 2, cool-down 1, delays
\* doubling up to MaxDelay, no jitter.
SupervisorInit ==
    /\ sup = [a \in Agents |-> Supervisor_new_agent(policy, 2, 1, 2, MaxDelay, FALSE)]
    /\ supLog = <<>>

\* No next() call was just made.
NoCall == [before |-> <<>>, open |-> {}, result |-> None]

\* One of the given Priority schedulers, nothing pending,
\* every breaker Closed (threshold 1, cool-down 1).
SchedulerInit(schedulers) ==
    /\ \E ps \in schedulers : sched = Scheduler_new(ps)
    /\ circuits = [a \in Agents |-> CircuitBreaker_new(1, 1)]
    /\ pending = <<>>
    /\ lastNext = NoCall

SchedulerIdle == SchedulerInit({PriorityScheduler_default})

\* A policy of one of the given types fresh from new(), no PriorityScheduler
\* built yet.
ConfigInit(types) ==
    /\ spType \in types
    /\ sp = SchedulingPolicy_new(spType)
    /\ spCalls = <<>>
    /\ prio = None

ConfigIdle == ConfigInit({"FCFS"})

\* The threads that report probe outcomes.
Reporters == {"r1", "r2"}

\* Every agent's check fresh from new(), no reporter inside a call.
ReportsInit ==
    /\ checks = [a \in Agents |-> HealthCheck_new]
    /\ inCall = [r \in Reporters |-> None]
    /\ reported = [a \in Agents |-> <<>>]

\* The state of everything outside the component a run is about.
ExtraIdle == ConfigIdle /\ ReportsInit

\* ------------------------------------------------------------------ actions

\* Time passes.
Tick ==
    /\ clock < MaxTime
    /\ clock' = clock + 1

\* The log entry of a call: the operation, the task it was given or the
\* Option<Task> it returned, and len() and is_empty() of the queue q it left.
QueueCall(op, arg, q) ==
    [op |-> op, arg |-> arg, len |-> TaskQueue_len(q), empty |-> TaskQueue_is_empty(q)]

Push(task) ==
    /\ Len(pushed) < MaxPush
    /\ Len(qLog) < MaxOps
    /\ tasks' = TaskQueue_push(tasks, task)
    /\ pushed' = Append(pushed, task)
    /\ qLog' = Append(qLog, QueueCall("push", Some(task), tasks'))
    /\ UNCHANGED <<popResult, popped, cleared>>

Pop ==
    LET r == TaskQueue_pop(tasks) IN
    /\ Len(qLog) < MaxOps
    /\ tasks' = r.queue
    /\ popResult' = r.result
    /\ popped' = popped \o r.result
    /\ qLog' = Append(qLog, QueueCall("pop", r.result, tasks'))
    /\ UNCHANGED <<pushed, cleared>>

Clear ==
    /\ Len(qLog) < MaxOps
    /\ tasks' = TaskQueue_clear(tasks)
    /\ cleared' = TRUE
    /\ qLog' = Append(qLog, QueueCall("clear", None, tasks'))
    /\ UNCHANGED <<popResult, pushed, popped>>

\* A call count one higher; the count is not a u32 and does not wrap.
CountUp(n) ==
    IF n.lo + 1 < U16Modulus
    THEN [hi |-> n.hi, lo |-> n.lo + 1]
    ELSE [hi |-> n.hi + 1, lo |-> 0]

\* No call is made on a check whose owner panicked.
RecordHealthy ==
    /\ ~panicked
    /\ Len(hcLog) < MaxCalls
    /\ hc' = HealthCheck_record_healthy(hc, clock)
    /\ hcLog' = Append(hcLog, "healthy")
    /\ hcRun' = U32_zero
    /\ hcPrev' = HealthCheck_failures(hc)
    /\ UNCHANGED <<hcCtor, overflowChecks, panicked>>

RecordUnhealthy ==
    LET r == HealthCheck_record_unhealthy_in(overflowChecks, hc, clock) IN
    /\ ~panicked
    /\ Len(hcLog) < MaxCalls
    /\ hc' = r.check
    /\ panicked' = r.panicked
    /\ hcLog' = Append(hcLog, "unhealthy")
    /\ hcRun' = CountUp(hcRun)
    /\ hcPrev' = HealthCheck_failures(hc)
    /\ UNCHANGED <<hcCtor, overflowChecks>>

\* A failure of the agent is reported to its breaker.
BreakerFailure ==
    /\ Len(cbLog) < MaxCbEvents
    /\ cb' = CircuitBreaker_record_failure(cb, clock)
    /\ cbLog' = Append(cbLog, "failure")
    /\ cbTrace' = Append(cbTrace, CircuitBreaker_state(cb'))

\* A success of the agent is reported to its breaker.
BreakerSuccess ==
    /\ Len(cbLog) < MaxCbEvents
    /\ cb' = CircuitBreaker_record_success(cb, clock)
    /\ cbLog' = Append(cbLog, "success")
    /\ cbTrace' = Append(cbTrace, CircuitBreaker_state(cb'))

\* The cool-down of an Open breaker has elapsed.
BreakerCoolDown ==
    /\ Len(cbLog) < MaxCbEvents
    /\ CircuitBreaker_cooled_down(cb, clock)
    /\ cb' = CircuitBreaker_half_open(cb, clock)
    /\ cbLog' = Append(cbLog, "cooldown")
    /\ cbTrace' = Append(cbTrace, CircuitBreaker_state(cb'))

NextDelay(offset) ==
    LET r == ExponentialBackoff_next_delay(bo, offset) IN
    /\ bo.attempt < MaxAttempt
    /\ bo' = r.backoff
    /\ delays' = Append(delays, r.delay)
    /\ UNCHANGED boResets

BackoffReset ==
    /\ bo' = ExponentialBackoff_reset(bo)
    /\ delays' = <<>>
    /\ boResets' = 1

\* The execution layer reports that agent a failed.
ReportFailure(a, offset) ==
    LET r == Supervisor_on_failure(sup[a], policy, clock, offset) IN
    /\ Len(supLog) < MaxSupEvents
    /\ sup' = [sup EXCEPT ![a] = r.agent]
    /\ supLog' = Append(supLog, [agent |-> a, event |-> "failure",
                                  decision |-> r.decision, delay |-> r.delay])

\* A probe of agent a succeeded.
ReportSuccess(a) ==
    /\ Len(supLog) < MaxSupEvents
    /\ sup' = [sup EXCEPT ![a] = Supervisor_on_success(sup[a], clock)]
    /\ supLog' = Append(supLog, [agent |-> a, event |-> "success",
                                  decision |-> "None", delay |-> 0])

\* The cool-down of agent a's Open breaker has elapsed.
SupCoolDown(a) ==
    /\ CircuitBreaker_cooled_down(sup[a].breaker, clock)
    /\ sup' = [sup EXCEPT ![a].breaker = CircuitBreaker_half_open(sup[a].breaker, clock)]
    /\ UNCHANGED supLog

\* A producer submits a task whose priority is one of the scheduler's levels.
Submit(task) ==
    /\ Len(pending) < MaxPending
    /\ task.priority \in 1..PriorityScheduler_levels(sched.priority)
    /\ sched' = Scheduler_submit(sched, task)
    /\ pending' = Append(pending, task)
    /\ lastNext' = NoCall
    /\ UNCHANGED circuits

\* The dispatch loop asks for the next task.
SchedNext ==
    LET r == Scheduler_next(sched, circuits)
        gone == IF r.result = None THEN 0
                ELSE CHOOSE j \in 1..Len(pending) :
                         /\ pending[j] = r.result[1]
                         /\ \A k \in 1..(j - 1) : pending[k] # r.result[1]
    IN  /\ sched' = r.scheduler
        /\ pending' = IF gone = 0 THEN pending ELSE Scheduler_remove(pending, gone)
        /\ lastNext' = [before |-> pending,
                        open |-> {a \in Agents : CircuitBreaker_state(circuits[a]) = "Open"},
                        result |-> r.result]
        /\ UNCHANGED circuits

\* The Supervisor reports a failure of agent a to its breaker.
CircuitFailure(a) ==
    /\ circuits' = [circuits EXCEPT ![a] = CircuitBreaker_record_failure(circuits[a], clock)]
    /\ lastNext' = NoCall
    /\ UNCHANGED <<sched, pending>>

\* The Supervisor reports a success of agent a to its breaker.
CircuitSuccess(a) ==
    /\ circuits' = [circuits EXCEPT ![a] = CircuitBreaker_record_success(circuits[a], clock)]
    /\ lastNext' = NoCall
    /\ UNCHANGED <<sched, pending>>

\* The cool-down of agent a's Open breaker has elapsed.
CircuitCoolDown(a) ==
    /\ CircuitBreaker_cooled_down(circuits[a], clock)
    /\ circuits' = [circuits EXCEPT ![a] = CircuitBreaker_half_open(circuits[a], clock)]
    /\ lastNext' = NoCall
    /\ UNCHANGED <<sched, pending>>

\* The agents whose check some reporter is inside a call on.
Borrowed == {inCall[r][1].agent : r \in {q \in Reporters : inCall[q] # None}}

\* The calls begun so far.
Begun ==
    Len(reported["agentA"]) + Len(reported["agentB"])
        + Cardinality({r \in Reporters : inCall[r] # None})

\* Reporter r enters record_healthy or record_unhealthy on agent a's check.
BeginReport(r, a, kind) ==
    /\ inCall[r] = None
    /\ Begun < MaxReports
    /\ HealthCheck_borrow_mut(Borrowed, a)
    /\ inCall' = [inCall EXCEPT ![r] = Some([agent |-> a, kind |-> kind, step |-> 1])]
    /\ UNCHANGED <<checks, reported>>

\* Reporter r runs the next assignment of its call, and returns after the last.
StepReport(r) ==
    /\ inCall[r] # None
    /\ LET c == inCall[r][1] IN
           /\ checks' = [checks EXCEPT ![c.agent] =
                   HealthCheck_record_step(checks[c.agent], c.kind, RecordSteps[c.step], clock)]
           /\ IF c.step < Len(RecordSteps)
              THEN /\ inCall' = [inCall EXCEPT ![r] = Some([c EXCEPT !.step = c.step + 1])]
                   /\ UNCHANGED reported
              ELSE /\ inCall' = [inCall EXCEPT ![r] = None]
                   /\ reported' = [reported EXCEPT ![c.agent] = Append(@, c.kind)]

\* The builder adds one parameter to the policy.
WithParameter(name, value) ==
    /\ Len(spCalls) < MaxParameters
    /\ sp' = SchedulingPolicy_with_parameter(sp, name, value)
    /\ spCalls' = Append(spCalls, <<name, value>>)
    /\ UNCHANGED <<spType, prio>>

\* The configuration's priority level count is handed to PriorityScheduler::new.
BuildPriority(levels) ==
    /\ prio = None
    /\ prio' = Some(PriorityScheduler_new(levels))
    /\ UNCHANGED <<sp, spType, spCalls>>

\* ------------------------------------------------------------------ specifications

\* One TaskQueue under push, pop and clear.
QueueNext ==
    \/ \E task \in Tasks : Push(task) /\ UNCHANGED <<clock, healthVars, breakerVars, others>>
    \/ Pop /\ UNCHANGED <<clock, healthVars, breakerVars, others>>
    \/ Clear /\ UNCHANGED <<clock, healthVars, breakerVars, others>>

InitQueue ==
    clock = 0 /\ QueueInit /\ HealthIdle /\ BreakerIdle /\ PolicyIdle /\ BackoffIdle /\ SupervisorInit /\ SchedulerIdle /\ ExtraIdle

SpecQueue == InitQueue /\ [][QueueNext]_vars

\* One HealthCheck under probe outcomes arriving over time.
HealthNext ==
    \/ Tick /\ UNCHANGED <<queueVars, healthVars, breakerVars, others>>
    \/ RecordHealthy /\ UNCHANGED <<clock, queueVars, breakerVars, others>>
    \/ RecordUnhealthy /\ UNCHANGED <<clock, queueVars, breakerVars, others>>

InitHealth ==
    clock = 0 /\ QueueInit /\ HealthInit /\ BreakerIdle /\ PolicyIdle /\ BackoffIdle /\ SupervisorInit /\ SchedulerIdle /\ ExtraIdle

SpecHealth == InitHealth /\ [][HealthNext]_vars

\* The same HealthCheck late in a long run of failures.
InitHealthLong ==
    clock = 0 /\ QueueInit /\ HealthLongInit /\ BreakerIdle /\ PolicyIdle /\ BackoffIdle /\ SupervisorInit /\ SchedulerIdle /\ ExtraIdle

SpecHealthLong == InitHealthLong /\ [][HealthNext]_vars

\* One CircuitBreaker under reports and cool-downs over time.
BreakerNext ==
    \/ Tick /\ UNCHANGED <<queueVars, healthVars, breakerVars, others>>
    \/ BreakerFailure /\ UNCHANGED <<clock, queueVars, healthVars, others>>
    \/ BreakerSuccess /\ UNCHANGED <<clock, queueVars, healthVars, others>>
    \/ BreakerCoolDown /\ UNCHANGED <<clock, queueVars, healthVars, others>>

InitBreaker ==
    clock = 0 /\ QueueInit /\ HealthIdle /\ BreakerInit /\ PolicyIdle /\ BackoffIdle /\ SupervisorInit /\ SchedulerIdle /\ ExtraIdle

SpecBreaker == InitBreaker /\ [][BreakerNext]_vars

\* One ExponentialBackoff whose base comes from a RestartPolicy.
BackoffNext ==
    \/ \E offset \in 0..MaxJitter :
           NextDelay(offset)
           /\ UNCHANGED <<clock, queueVars, healthVars, breakerVars, policyVars, supVars, schedVars, extraVars>>
    \/ BackoffReset
       /\ UNCHANGED <<clock, queueVars, healthVars, breakerVars, policyVars, supVars, schedVars, extraVars>>

InitBackoff ==
    /\ clock = 0 /\ QueueInit /\ HealthIdle /\ BreakerIdle
    /\ PolicyInit({"ExponentialBackoff"}, {None},
                  {None} \cup {Some(n) : n \in 0..MaxSeconds})
    /\ BackoffInit /\ SupervisorInit /\ SchedulerIdle /\ ExtraIdle

SpecBackoff == InitBackoff /\ [][BackoffNext]_vars

\* The Supervisor of all agents under one policy.
SupervisorNext ==
    \/ Tick
       /\ UNCHANGED <<queueVars, healthVars, breakerVars, others>>
    \/ \E a \in Agents, offset \in 0..MaxJitter :
           ReportFailure(a, offset)
           /\ UNCHANGED <<clock, queueVars, healthVars, breakerVars, policyVars, backoffVars, schedVars, extraVars>>
    \/ \E a \in Agents :
           ReportSuccess(a)
           /\ UNCHANGED <<clock, queueVars, healthVars, breakerVars, policyVars, backoffVars, schedVars, extraVars>>
    \/ \E a \in Agents :
           SupCoolDown(a)
           /\ UNCHANGED <<clock, queueVars, healthVars, breakerVars, policyVars, backoffVars, schedVars, extraVars>>

InitSupervisor ==
    /\ clock = 0 /\ QueueInit /\ HealthIdle /\ BreakerIdle
    /\ PolicyInit(RestartStrategy, {None} \cup {Some(n) : n \in 0..MaxRetries},
                  {None, Some(MaxSeconds)})
    /\ BackoffIdle /\ SupervisorInit /\ SchedulerIdle /\ ExtraIdle

SpecSupervisor == InitSupervisor /\ [][SupervisorNext]_vars

\* The Priority scheduler under submissions and next() calls, while the
\* agents' breakers open and close.
SchedulerNext ==
    \/ Tick /\ lastNext' = NoCall
       /\ UNCHANGED <<queueVars, healthVars, breakerVars, policyVars, backoffVars, supVars,
                      extraVars, sched, circuits, pending>>
    \/ \E task \in Tasks :
           Submit(task)
           /\ UNCHANGED <<clock, queueVars, healthVars, breakerVars, policyVars, backoffVars, supVars, extraVars>>
    \/ SchedNext
       /\ UNCHANGED <<clock, queueVars, healthVars, breakerVars, policyVars, backoffVars, supVars, extraVars>>
    \/ \E a \in Agents :
           CircuitFailure(a)
           /\ UNCHANGED <<clock, queueVars, healthVars, breakerVars, policyVars, backoffVars, supVars, extraVars>>
    \/ \E a \in Agents :
           CircuitSuccess(a)
           /\ UNCHANGED <<clock, queueVars, healthVars, breakerVars, policyVars, backoffVars, supVars, extraVars>>
    \/ \E a \in Agents :
           CircuitCoolDown(a)
           /\ UNCHANGED <<clock, queueVars, healthVars, breakerVars, policyVars, backoffVars, supVars, extraVars>>

InitScheduler ==
    /\ clock = 0 /\ QueueInit /\ HealthIdle /\ BreakerIdle
    /\ PolicyIdle /\ BackoffIdle /\ SupervisorInit /\ ExtraIdle
    /\ SchedulerInit({PriorityScheduler_new(n) : n \in 1..MaxLevels}
                     \cup {PriorityScheduler_default})

SpecScheduler == InitScheduler /\ [][SchedulerNext]_vars

\* A SchedulingPolicy being built and a PriorityScheduler constructed, from
\* whatever numbers the configuration holds.
ConfigNext ==
    \/ \E name \in ParameterNames, value \in ParameterValues :
           WithParameter(name, value)
           /\ UNCHANGED <<clock, queueVars, healthVars, breakerVars,
                          policyVars, backoffVars, supVars, schedVars, reportVars>>
    \/ \E levels \in 0..MaxLevels :
           BuildPriority(levels)
           /\ UNCHANGED <<clock, queueVars, healthVars, breakerVars,
                          policyVars, backoffVars, supVars, schedVars, reportVars>>

InitConfig ==
    /\ clock = 0 /\ QueueInit /\ HealthIdle /\ BreakerIdle
    /\ PolicyIdle /\ BackoffIdle /\ SupervisorInit /\ SchedulerIdle
    /\ ConfigInit(PolicyType) /\ ReportsInit

SpecConfig == InitConfig /\ [][ConfigNext]_vars

\* Reporters calling record_healthy and record_unhealthy on the agents'
\* checks at the same time, one assignment at a time.
ReportsNext ==
    \/ Tick
       /\ UNCHANGED <<queueVars, healthVars, breakerVars, others>>
    \/ \E r \in Reporters, a \in Agents, kind \in {"healthy", "unhealthy"} :
           BeginReport(r, a, kind)
           /\ UNCHANGED <<clock, queueVars, healthVars, breakerVars,
                          policyVars, backoffVars, supVars, schedVars, configVars>>
    \/ \E r \in Reporters :
           StepReport(r)
           /\ UNCHANGED <<clock, queueVars, healthVars, breakerVars,
                          policyVars, backoffVars, supVars, schedVars, configVars>>

InitReports ==
    /\ clock = 0 /\ QueueInit /\ HealthIdle /\ BreakerIdle
    /\ PolicyIdle /\ BackoffIdle /\ SupervisorInit /\ SchedulerIdle
    /\ ConfigIdle /\ ReportsInit

SpecReports == InitReports /\ [][ReportsNext]_vars

\* ------------------------------------------------------------------ helpers of the claims

\* The check that new() followed by the calls of log, one at a time, gives.
RECURSIVE Replay(_)
Replay(log) ==
    IF log = <<>> THEN HealthCheck_new
    ELSE LET h == Replay(SubSeq(log, 1, Len(log) - 1)) IN
         IF log[Len(log)] = "healthy"
         THEN HealthCheck_record_healthy(h, 0)
         ELSE HealthCheck_record_unhealthy(h, 0)

\* The orders the calls of log can be applied in: the logs of the same
\* length with as many calls of each kind.
Orders(log) ==
    {o \in [1..Len(log) -> {"healthy", "unhealthy"}] :
        Cardinality({i \in 1..Len(o) : o[i] = "healthy"})
            = Cardinality({i \in 1..Len(log) : log[i] = "healthy"})}

IsPrefix(s, t) == Len(s) <= Len(t) /\ SubSeq(t, 1, Len(s)) = s

\* The calls of a queue log made after its last clear().
SinceClear(log) ==
    LET clears == {i \in 1..Len(log) : log[i].op = "clear"}
        last == IF clears = {} THEN 0
                ELSE CHOOSE i \in clears : \A j \in clears : j <= i
    IN  SubSeq(log, last + 1, Len(log))

\* The tasks a queue log's push calls were given, in order.
PushedIn(log) ==
    LET calls == SelectSeq(log, LAMBDA c : c.op = "push")
    IN  [i \in 1..Len(calls) |-> calls[i].arg[1]]

\* The tasks a queue log's pop calls returned, in order.
PoppedIn(log) ==
    LET calls == SelectSeq(log, LAMBDA c : c.op = "pop" /\ c.arg # None)
    IN  [i \in 1..Len(calls) |-> calls[i].arg[1]]

\* After the calls of log the queue holds nothing: never pushed to, or as
\* many tasks taken out as were put in since the last clear().
Drained(log) ==
    Len(PushedIn(SinceClear(log))) = Len(PoppedIn(SinceClear(log)))

\* The number of "unhealthy" entries at the end of a call log.
RECURSIVE TrailingUnhealthy(_)
TrailingUnhealthy(log) ==
    IF log = <<>> \/ log[Len(log)] # "unhealthy"
    THEN 0
    ELSE 1 + TrailingUnhealthy(SubSeq(log, 1, Len(log) - 1))

\* The number of "failure" entries at the end of an event log.
RECURSIVE TrailingFailures(_)
TrailingFailures(log) ==
    IF log = <<>> \/ log[Len(log)] # "failure"
    THEN 0
    ELSE 1 + TrailingFailures(SubSeq(log, 1, Len(log) - 1))

\* The entries of the Supervisor's log that are about agent a.
AgentLog(a) == SelectSeq(supLog, LAMBDA e : e.agent = a)

\* The run of consecutive failures a log ends with.
RECURSIVE FailureRun(_)
FailureRun(log) ==
    IF log = <<>> \/ log[Len(log)].event # "failure"
    THEN <<>>
    ELSE Append(FailureRun(SubSeq(log, 1, Len(log) - 1)), log[Len(log)])

\* The number of restarts a log's entries scheduled.
Restarts(log) == Cardinality({i \in 1..Len(log) : log[i].decision = "Restart"})

\* The backoff_seconds the configuration asks for (new() sets 1).
ConfiguredSeconds == IF config.seconds = None THEN 1 ELSE config.seconds[1]

\* The place in the last next() call's pending list of the task it returned.
Returned ==
    CHOOSE j \in 1..Len(lastNext.before) :
        /\ lastNext.before[j] = lastNext.result[1]
        /\ \A k \in 1..(j - 1) : lastNext.before[k] # lastNext.result[1]

\* ------------------------------------------------------------------ claims

\* C1: with no clear, the tasks returned by successful pops are, in order, a
\* prefix of the tasks pushed: every pop returns the earliest-pushed task not
\* yet popped, none twice and none skipped.
C1_PopsArePrefixOfPushes ==
    ~cleared =>
        /\ IsPrefix(popped, pushed)
        /\ popResult # None => popped # <<>> /\ popResult = Some(popped[Len(popped)])

\* Two different tasks were pushed and both came back out.
C1_Witness ==
    /\ ~cleared
    /\ Len(popped) >= 2
    /\ popped[1] # popped[2]
    /\ Len(pushed) > Len(popped)

\* C2: after record_healthy, whatever the state it was called in, the status
\* is Healthy and the failure counter is zero.
C2_HealthyResets ==
    (hcLog # <<>> /\ hcLog[Len(hcLog)] = "healthy") =>
        /\ HealthCheck_status(hc) = "Healthy"
        /\ HealthCheck_failures(hc) = U32_of(0)

\* record_healthy was called on an Unhealthy check with two failures counted.
C2_Witness ==
    /\ Len(hcLog) >= 3
    /\ hcLog[Len(hcLog)] = "healthy"
    /\ hcLog[Len(hcLog) - 1] = "unhealthy"
    /\ hcLog[Len(hcLog) - 2] = "unhealthy"

\* C3: failures() is the number of record_unhealthy calls since the last
\* record_healthy call (or since creation), and the status after
\* record_unhealthy is Unhealthy.
C3_ConsecutiveFailures ==
    /\ HealthCheck_failures(hc) = U32_of(TrailingUnhealthy(hcLog))
    /\ (hcLog # <<>> /\ hcLog[Len(hcLog)] = "unhealthy") =>
           HealthCheck_status(hc) = "Unhealthy"

\* Two unhealthy observations after a healthy one that followed a failure.
C3_Witness ==
    /\ Len(hcLog) = 4
    /\ hcLog = <<"unhealthy", "healthy", "unhealthy", "unhealthy">>
    /\ HealthCheck_failures(hc) = U32_of(2)

\* C4: a HealthCheck made by new() or default() starts Unknown, with no
\* failures counted and no observation time, and is not healthy.
C4_StartsUnknown ==
    hcLog = <<>> =>
        /\ HealthCheck_status(hc) = "Unknown"
        /\ HealthCheck_failures(hc) = U32_of(0)
        /\ hc.last_check = None
        /\ ~HealthCheck_is_healthy(hc)

\* A check made by default(), before any observation, some time after creation.
C4_Witness ==
    /\ hcLog = <<>>
    /\ hcCtor = "default"
    /\ clock > 0

\* C5: a Closed breaker opens exactly when the run of consecutive reported
\* failures reaches the threshold: a Closed breaker has seen fewer, and the
\* failure that makes the run threshold long leaves it Open.
C5_OpensAtThreshold ==
    \A i \in 1..Len(cbLog) :
        (cbTrace[i] = "Closed" /\ cbLog[i] = "failure") =>
            /\ cbTrace[i + 1] \in {"Closed", "Open"}
            /\ cbTrace[i + 1] = "Open" <=>
                   TrailingFailures(SubSeq(cbLog, 1, i)) = cb.threshold
            /\ cbTrace[i + 1] = "Closed" <=>
                   TrailingFailures(SubSeq(cbLog, 1, i)) < cb.threshold

\* Threshold 3: a failure, a success, two failures (still Closed), and the
\* third consecutive failure opens the circuit.
C5_Witness ==
    /\ cb.threshold = 3
    /\ cbLog = <<"failure", "success", "failure", "failure", "failure">>
    /\ cbTrace = <<"Closed", "Closed", "Closed", "Closed", "Closed", "Open">>

\* C6: Open is never followed directly by Closed, a HalfOpen state lies
\* between any Open state and the next Closed state, and the failure count
\* is 0 right after the HalfOpen success that closes the circuit.
C6_OpenNeverDirectlyClosed ==
    /\ \A i \in 1..Len(cbLog) :
           cbTrace[i] = "Open" => cbTrace[i + 1] # "Closed"
    /\ \A i, j \in 1..Len(cbTrace) :
           (i < j /\ cbTrace[i] = "Open" /\ cbTrace[j] = "Closed") =>
               \E k \in (i + 1)..(j - 1) : cbTrace[k] = "HalfOpen"
    /\ (/\ cbLog # <<>>
        /\ cbLog[Len(cbLog)] = "success"
        /\ cbTrace[Len(cbLog)] = "HalfOpen") =>
           /\ CircuitBreaker_state(cb) = "Closed"
           /\ CircuitBreaker_failures(cb) = 0

\* A breaker that opened, cooled down, and was closed by the trial's success.
C6_Witness ==
    /\ Len(cbLog) >= 3
    /\ cbTrace[Len(cbLog) - 1] = "Open"
    /\ cbTrace[Len(cbLog)] = "HalfOpen"
    /\ cbTrace[Len(cbLog) + 1] = "Closed"
    /\ cb.threshold >= 2

C9_NeverRestarts ==
    config.strategy = "Never" =>
        \A i \in 1..Len(supLog) : supLog[i].decision # "Restart"

\* Never, with a retry budget and a backoff set: three failures of one agent
\* in a row.
C9_Witness ==
    /\ config.strategy = "Never"
    /\ config.retries # None
    /\ config.seconds # None
    /\ Len(FailureRun(AgentLog("agentA"))) >= 3

\* C10: without jitter, the delays next_delay() returns between two resets
\* never decrease and never exceed max_delay, and the first one (after
\* creation or after reset()) is the base delay, the delay of attempt 0: the
\* configured backoff_seconds, capped at max_delay.
C10_DelaysGrowToCap ==
    ~bo.jitter =>
        /\ \A i, j \in 1..Len(delays) : i < j => delays[i] <= delays[j]
        /\ \A i \in 1..Len(delays) : delays[i] <= bo.max_delay
        /\ delays # <<>> => delays[1] = Min(ConfiguredSeconds, bo.max_delay)

\* After a reset: the base delay, a longer one, then the cap.
C10_Witness ==
    /\ ~bo.jitter
    /\ boResets = 1
    /\ Len(delays) = 3
    /\ delays[1] = ConfiguredSeconds
    /\ delays[1] < delays[2]
    /\ delays[2] < delays[3]
    /\ delays[3] = bo.max_delay
    /\ bo.base * Pow(bo.factor, 2) > bo.max_delay

\* C12: a pop() on a queue that holds nothing (never pushed to, drained, or
\* cleared) returns None and leaves the queue empty with len() 0, and a push
\* followed by a pop right after it returns the task pushed.
C12_EmptyPopIsNone ==
    \A i \in 1..Len(qLog) :
        (qLog[i].op = "pop" /\ Drained(SubSeq(qLog, 1, i - 1))) =>
            /\ qLog[i].arg = None
            /\ qLog[i].len = 0
            /\ qLog[i].empty
            /\ i = Len(qLog) => tasks = TaskQueue_new
            /\ (/\ i + 2 <= Len(qLog)
                /\ qLog[i + 1].op = "push"
                /\ qLog[i + 2].op = "pop") =>
                   qLog[i + 2].arg = qLog[i + 1].arg

\* A task pushed and popped, a pop on the drained queue, then another task
\* pushed and popped.
C12_Witness ==
    /\ Len(qLog) = 5
    /\ [i \in 1..5 |-> qLog[i].op] = <<"push", "pop", "pop", "push", "pop">>
    /\ qLog[3].arg = None
    /\ qLog[5].arg = qLog[4].arg
    /\ qLog[4].arg # qLog[1].arg

\* C15: clear() leaves the queue empty (len() 0, is_empty() true, a pop
\* right after it returns None), and the tasks popped after a clear are, in
\* order, a prefix of the tasks pushed after it: none from before the clear,
\* and those pushed after it first in, first out.
C15_ClearEmpties ==
    /\ \A i \in 1..Len(qLog) :
           qLog[i].op = "clear" =>
               /\ qLog[i].len = 0
               /\ qLog[i].empty
               /\ (i < Len(qLog) /\ qLog[i + 1].op = "pop") => qLog[i + 1].arg = None
    /\ cleared => IsPrefix(PoppedIn(SinceClear(qLog)), PushedIn(SinceClear(qLog)))

\* Two tasks were waiting when clear() was called; a third, different task
\* pushed after it is the one the next pop returned.
C15_Witness ==
    /\ Len(qLog) = 5
    /\ [i \in 1..5 |-> qLog[i].op] = <<"push", "push", "clear", "push", "pop">>
    /\ qLog[2].len = 2
    /\ qLog[4].arg \notin {qLog[1].arg, qLog[2].arg}
    /\ qLog[5].arg = qLog[4].arg
    /\ tasks = <<>>

\* C19: len() is the number of push calls less the number of pop calls that
\* returned a task, both counted since the last clear() (or since creation),
\* and is_empty() is true exactly when len() is 0.
C19_LenIsPushesLessPops ==
    /\ TaskQueue_len(tasks) =
           Len(PushedIn(SinceClear(qLog))) - Len(PoppedIn(SinceClear(qLog)))
    /\ TaskQueue_is_empty(tasks) <=> TaskQueue_len(tasks) = 0
    /\ \A i \in 1..Len(qLog) : qLog[i].empty <=> qLog[i].len = 0

\* After a clear: three pushes and one pop that returned a task, two waiting.
C19_Witness ==
    /\ cleared
    /\ Len(PushedIn(SinceClear(qLog))) = 3
    /\ Len(PoppedIn(SinceClear(qLog))) = 1
    /\ TaskQueue_len(tasks) = 2
    /\ ~TaskQueue_is_empty(tasks)

\* C11: invalid configuration never yields an object: no PriorityScheduler
\* with zero levels exists, and no SchedulingPolicy holds a negative weight.
C11_InvalidConfigRejected ==
    /\ prio # None => PriorityScheduler_levels(prio[1]) >= 1
    /\ \A i \in 1..Len(SchedulingPolicy_parameters(sp)) :
           SchedulingPolicy_parameters(sp)[i][1] = "weight" =>
               SchedulingPolicy_parameters(sp)[i][2] >= 0

\* C14: for every name with_parameter was called with, the policy's value of
\* that parameter is the value given in the last of those calls.
C14_LastWriteWins ==
    \A name \in ParameterNames :
        LET calls == {i \in 1..Len(spCalls) : spCalls[i][1] = name} IN
        IF calls = {}
        THEN SchedulingPolicy_parameter(sp, name) = None
        ELSE SchedulingPolicy_parameter(sp, name) =
                 Some(spCalls[CHOOSE i \in calls : \A j \in calls : j <= i][2])

\* weight was given twice with different values, another parameter in between.
C14_Witness ==
    /\ Len(spCalls) = 3
    /\ spCalls[1][1] = "weight"
    /\ spCalls[2][1] = "aging"
    /\ spCalls[3][1] = "weight"
    /\ spCalls[1][2] # spCalls[3][2]
    /\ SchedulingPolicy_parameter(sp, "weight") = Some(spCalls[3][2])

\* C16: the parameter list is exactly the with_parameter calls made, in call
\* order, pairs of the same name included; new() leaves it empty; and the
\* policy_type is the one given to new().
C16_ParametersAccumulate ==
    /\ SchedulingPolicy_parameters(sp) = spCalls
    /\ spCalls = <<>> => SchedulingPolicy_parameters(sp) = <<>>
    /\ SchedulingPolicy_policy_type(sp) = spType

\* Three calls, the first and the last with the same name, on a policy that
\* is not of the idle type.
C16_Witness ==
    /\ spType = "FairShare"
    /\ Len(SchedulingPolicy_parameters(sp)) = 3
    /\ SchedulingPolicy_parameters(sp)[1][1] = SchedulingPolicy_parameters(sp)[3][1]
    /\ SchedulingPolicy_parameters(sp)[1] # SchedulingPolicy_parameters(sp)[3]
    /\ SchedulingPolicy_parameters(sp)[2][1] # SchedulingPolicy_parameters(sp)[1][1]

\* C3 as claimed: after any sequence of calls failures() is the number of
\* record_unhealthy calls made since the last record_healthy (or creation),
\* and the status after record_unhealthy is Unhealthy.
C3_AsClaimed ==
    /\ HealthCheck_failures(hc) = hcRun
    /\ (hcLog # <<>> /\ hcLog[Len(hcLog)] = "unhealthy") =>
           HealthCheck_status(hc) = "Unhealthy"

\* C17: Healthy and Unknown come with failures() = 0, Unhealthy with
\* failures() >= 1, and is_healthy() is true exactly when the status is
\* Healthy.
C17_StatusMatchesCounter ==
    /\ HealthCheck_status(hc) \in {"Healthy", "Unknown"} =>
           HealthCheck_failures(hc) = U32_zero
    /\ HealthCheck_status(hc) = "Unhealthy" =>
           U32_less(U32_zero, HealthCheck_failures(hc))
    /\ HealthCheck_is_healthy(hc) <=> HealthCheck_status(hc) = "Healthy"

\* C18: once a record_healthy or record_unhealthy call has been made, the
\* status is never Unknown again.
C18_UnknownOnlyInitially ==
    hcLog # <<>> => HealthCheck_status(hc) # "Unknown"

\* A failure first, then a recovery and another failure.
C18_Witness ==
    /\ Len(hcLog) >= 3
    /\ hcLog[1] = "unhealthy"
    /\ hcLog[2] = "healthy"
    /\ hcLog[3] = "unhealthy"
    /\ HealthCheck_status(hc) = "Unhealthy"

\* C20: a record_unhealthy call that returns leaves failures() strictly
\* greater than it was before the call, whatever the counter was: the
\* counter never wraps to 0 or to a smaller number.
C20_CounterNeverWraps ==
    (hcLog # <<>> /\ hcLog[Len(hcLog)] = "unhealthy" /\ ~panicked) =>
        U32_less(hcPrev, HealthCheck_failures(hc))

\* C13: whenever no call is inside the check of an agent, its status and
\* failure count are those that the calls made on it so far give when
\* applied one at a time in some order, whatever the reporters did on the
\* other agents' checks meanwhile.
C13_ReportsSerialized ==
    \A a \in Agents :
        a \notin Borrowed =>
            \E o \in Orders(reported[a]) :
                /\ HealthCheck_status(checks[a]) = HealthCheck_status(Replay(o))
                /\ HealthCheck_failures(checks[a]) = HealthCheck_failures(Replay(o))

\* Both kinds of report were made on agentA's check, the failure last, and a
\* reporter is half-way through a call on agentB's check.
C13_Witness ==
    /\ reported["agentA"] = <<"healthy", "unhealthy">>
    /\ "agentA" \notin Borrowed
    /\ \E r \in Reporters :
           /\ inCall[r] # None
           /\ inCall[r][1].agent = "agentB"
           /\ inCall[r][1].step = 2

====
